---- MODULE Spec2Model ----
(***************************************************************************)
(* Model of src/main.go: a microservice that loads a symbol list from      *)
(* config.json, fetches the ticker snapshot of an upstream exchange, keeps *)
(* it in one shared Markets value refreshed by a background loop, and      *)
(* serves /currency, /currency/all and /currency/{symbol} from it.         *)
(*                                                                         *)
(* Goroutines are interleaved at the granularity of their accesses to the  *)
(* shared *Markets value: every read of markets.Markets and the write      *)
(* *markets = *newMarkets is one step.  The write stores one map reference *)
(* (a machine word), so a racing read yields the old or the new reference. *)
(***************************************************************************)
EXTENDS Integers, Sequences, FiniteSets, TLC

(***************************************************************************)
(* Data: symbols, tickers, maps                                            *)
(***************************************************************************)

\* Symbols the upstream exchange may report (keys of its JSON object).
Symbols == {"BTCUSD", "ETHBTC"}

\* Upstream quotes (MarketTicker, lines 35-43) that differ in every field.
TickerA ==
    [Ask |-> "10", Bid |-> "9", Last |-> "9.5", Open |-> "9.1", Low |-> "8",
     High |-> "11", Volume |-> "100"]

TickerB ==
    [Ask |-> "20", Bid |-> "19", Last |-> "19.5", Open |-> "19.1", Low |-> "18",
     High |-> "21", Volume |-> "200"]

TickerC ==
    [Ask |-> "30", Bid |-> "29", Last |-> "29.5", Open |-> "29.1", Low |-> "28",
     High |-> "31", Volume |-> "300"]

\* How many different quotes the upstream reports for a symbol over a run.
NumTickers == 2

Tickers == {<<TickerA, TickerB, TickerC>>[i] : i \in 1..NumTickers}

\* The zero value of MarketTicker: what a Go map read yields for an absent key.
ZeroTicker ==
    [Ask |-> "", Bid |-> "", Last |-> "", Open |-> "", Low |-> "", High |-> "",
     Volume |-> ""]

\* The contents a map[string]MarketTicker can have.
KVs == UNION {[D -> Tickers] : D \in SUBSET Symbols}

EmptyKV == [s \in {} |-> ZeroTicker]

\* A map[string]MarketTicker value: the nil map, or a made map with contents.
NilMap == [isNil |-> TRUE, kv |-> EmptyKV]

MakeMap(kv) == [isNil |-> FALSE, kv |-> kv]

Maps == {NilMap} \cup {MakeMap(kv) : kv \in KVs}

\* The keys a range over m visits; none for the nil map.
Keys(m) == DOMAIN m.kv

\* The comma-ok form m[s] of line 64.
MapHas(m, s) == s \in DOMAIN m.kv

\* The plain form m[s] of line 70: the zero value when s is absent.
MapGet(m, s) == IF s \in DOMAIN m.kv THEN m.kv[s] ELSE ZeroTicker

(***************************************************************************)
(* HTTP status codes used by the handlers                                  *)
(***************************************************************************)

StatusOK == 200

StatusMovedPermanently == 301

StatusBadRequest == 400

(***************************************************************************)
(* The upstream response and getMarkets                                    *)
(***************************************************************************)

\* Upstream status codes: a success and a non-success one.
UpstreamStatuses == {200, 500}

\* Response bodies: not JSON, the JSON value null, a JSON array, an object one
\* of whose ticker fields is a number, and an object of well-formed tickers.
Bodies ==
    {[kind |-> k, obj |-> EmptyKV] : k \in {"malformed", "null", "array", "badfield"}}
        \cup {[kind |-> "object", obj |-> kv] : kv \in KVs}

\* What http.Get and ioutil.ReadAll can deliver: a transport failure, a
\* response whose body cannot be read, or a status with a body.
Upstream ==
    {[fail |-> "get", status |-> 0, body |-> [kind |-> "malformed", obj |-> EmptyKV]]}
        \cup {[fail |-> "read", status |-> s, body |-> [kind |-> "malformed", obj |-> EmptyKV]] :
                s \in UpstreamStatuses}
        \cup {[fail |-> "none", status |-> s, body |-> b] :
                s \in UpstreamStatuses, b \in Bodies}

\* json.Unmarshal(body, &marketTickers) into a nil map[string]MarketTicker:
\* a syntax error for input that is not JSON, no error and no change for
\* null, a type error for a non-object or a non-string field, else the map.
UnmarshalTickers(body) ==
    CASE body.kind = "malformed" -> [err |-> "syntax", val |-> NilMap]
      [] body.kind = "null" -> [err |-> "nil", val |-> NilMap]
      [] body.kind = "array" -> [err |-> "type", val |-> NilMap]
      [] body.kind = "badfield" -> [err |-> "type", val |-> MakeMap(EmptyKV)]
      [] OTHER -> [err |-> "nil", val |-> MakeMap(body.obj)]

\* Mutant of getMarkets: of the tickers of the response only those of the
\* symbols of the list are kept.
getMarketsFiltered(symbols, up) ==
    IF up.fail = "get" THEN [err |-> "get", markets |-> NilMap]
    ELSE IF up.fail = "read" THEN [err |-> "read", markets |-> NilMap]
    ELSE LET u == UnmarshalTickers(up.body)
             listed == {symbols.items[i] : i \in DOMAIN symbols.items}
         IN IF u.err # "nil" THEN [err |-> u.err, markets |-> NilMap]
            ELSE [err |-> "nil",
                  markets |-> [isNil |-> u.val.isNil,
                               kv |-> [s \in DOMAIN u.val.kv \cap listed |->
                                         u.val.kv[s]]]]

\* getMarkets: the symbols argument is not used; the status code of the
\* response is never looked at.
getMarkets(symbols, up) ==
    IF up.fail = "get" THEN [err |-> "get", markets |-> NilMap]
    ELSE IF up.fail = "read" THEN [err |-> "read", markets |-> NilMap]
    ELSE LET u == UnmarshalTickers(up.body)
         IN IF u.err # "nil" THEN [err |-> u.err, markets |-> NilMap]
            ELSE [err |-> "nil", markets |-> u.val]

(***************************************************************************)
(* The config file and getConfig                                           *)
(***************************************************************************)

NilSymbols == [isNil |-> TRUE, items |-> <<>>]

SymbolList(items) == [isNil |-> FALSE, items |-> items]

\* What config.json can be: missing, unreadable, not JSON, the JSON value
\* null, a JSON array, or an object whose "symbols" member is absent, a
\* number, a list holding a number, or a list of strings.
ConfigFiles ==
    {[file |-> f, doc |-> "none", field |-> "none", list |-> <<>>] :
        f \in {"missing", "unreadable"}}
        \cup {[file |-> "ok", doc |-> d, field |-> "none", list |-> <<>>] :
                d \in {"malformed", "null", "array"}}
        \cup {[file |-> "ok", doc |-> "object", field |-> f, list |-> <<>>] :
                f \in {"absent", "number", "badlist"}}
        \cup {[file |-> "ok", doc |-> "object", field |-> "list", list |-> l] :
                l \in {<<"BTCUSD">>}}

\* ReadFile: the error of ioutil.ReadFile, or the bytes.
ReadFile(cf) == IF cf.file = "ok" THEN "nil" ELSE "read"

\* json.Unmarshal(bytes, &config) into a zero Config.
UnmarshalConfig(cf) ==
    CASE cf.doc = "malformed" -> [err |-> "syntax", Symbols |-> NilSymbols]
      [] cf.doc = "null" -> [err |-> "nil", Symbols |-> NilSymbols]
      [] cf.doc = "array" -> [err |-> "type", Symbols |-> NilSymbols]
      [] cf.field = "absent" -> [err |-> "nil", Symbols |-> NilSymbols]
      [] cf.field = "number" -> [err |-> "type", Symbols |-> NilSymbols]
      [] cf.field = "badlist" -> [err |-> "type", Symbols |-> NilSymbols]
      [] OTHER -> [err |-> "nil", Symbols |-> SymbolList(cf.list)]

getConfig(cf) ==
    IF ReadFile(cf) # "nil" THEN [err |-> ReadFile(cf), Symbols |-> NilSymbols]
    ELSE UnmarshalConfig(cf)

(***************************************************************************)
(* Requests, the URL query, Currency records and their JSON encoding       *)
(***************************************************************************)

\* Path segments after "/currency/" that requests carry.
PathSymbols == Symbols \cup {"all", ""}

\* Values of the "symbol" query parameter; "" stands for an absent one.
QuerySymbols == Symbols \cup {""}

\* A request the two registered patterns match: the exact path /currency
\* (one segment) or a path below /currency/ (the rest is the second segment).
Requests ==
    {[path |-> <<"currency">>, rawQuery |-> q] : q \in QuerySymbols}
        \cup {[path |-> <<"currency", p>>, rawQuery |-> q] :
                p \in PathSymbols, q \in QuerySymbols}

NoRequest == [path |-> <<>>, rawQuery |-> ""]

\* r.URL.Query(): parses RawQuery into a new Values on every call.
URLQuery(r) == [symbol |-> r.rawQuery]

\* Values.Get("symbol") and Values.Set("symbol", x).
ValuesGet(v) == v.symbol

ValuesSet(v, x) == [v EXCEPT !.symbol = x]

\* Line 254: r.URL.Query().Set("symbol", symbol) sets the key in the Values
\* that this call of Query() returned; the request itself stays as it was.
RequestAfterQuerySet(r, x) ==
    LET values == ValuesSet(URLQuery(r), x)
    IN r

\* Line 252: r.URL.Path[len("/currency/"):].
PathSymbol(r) == r.path[2]

\* Mutant of CurrencyHandlerCurrency: Ask and Bid taken from each other's field.
CurrencyHandlerCurrencySwapped(symbol, marketTicker) ==
    [ID |-> symbol, FullName |-> symbol, Ask |-> marketTicker.Bid,
     Bid |-> marketTicker.Ask, Last |-> marketTicker.Last,
     Open |-> marketTicker.Open, Low |-> marketTicker.Low,
     High |-> marketTicker.High, FeeCurrency |-> "BTC", Volume |-> "",
     QuoteVolume |-> "", Change |-> "", PercentChage |-> ""]

\* Lines 73-83: the Currency that CurrencyHandler builds.
CurrencyHandlerCurrency(symbol, marketTicker) ==
    [ID |-> symbol, FullName |-> symbol, Ask |-> marketTicker.Ask,
     Bid |-> marketTicker.Bid, Last |-> marketTicker.Last,
     Open |-> marketTicker.Open, Low |-> marketTicker.Low,
     High |-> marketTicker.High, FeeCurrency |-> "BTC", Volume |-> "",
     QuoteVolume |-> "", Change |-> "", PercentChage |-> ""]

\* Mutant of CurrenciesHandlerCurrency: the fee currency is taken from the
\* symbol instead of being fixed.
CurrenciesHandlerCurrencyFee(symbol, marketTicker) ==
    [ID |-> symbol, FullName |-> symbol, Ask |-> marketTicker.Ask,
     Bid |-> marketTicker.Bid, Last |-> marketTicker.Last,
     Open |-> marketTicker.Open, Low |-> marketTicker.Low,
     High |-> marketTicker.High,
     FeeCurrency |-> IF symbol = "ETHBTC" THEN "ETH" ELSE "BTC", Volume |-> "",
     QuoteVolume |-> "", Change |-> "", PercentChage |-> ""]

\* Lines 102-112: the Currency that CurrenciesHandler builds for one entry.
CurrenciesHandlerCurrency(symbol, marketTicker) ==
    [ID |-> symbol, FullName |-> symbol, Ask |-> marketTicker.Ask,
     Bid |-> marketTicker.Bid, Last |-> marketTicker.Last,
     Open |-> marketTicker.Open, Low |-> marketTicker.Low,
     High |-> marketTicker.High, FeeCurrency |-> "BTC", Volume |-> "",
     QuoteVolume |-> "", Change |-> "", PercentChage |-> ""]

\* json.Marshal of a Currency: the struct tags of lines 14-26 name the members.
MarshalCurrency(c) ==
    [id |-> c.ID, fullName |-> c.FullName, ask |-> c.Ask, bid |-> c.Bid,
     last |-> c.Last, open |-> c.Open, low |-> c.Low, high |-> c.High,
     feeCurrency |-> c.FeeCurrency, volume |-> c.Volume,
     quoteVolume |-> c.QuoteVolume, change |-> c.Change,
     percentChange |-> c.PercentChage]

\* A []Currency: the nil slice of "var currencies []Currency", or a slice.
NilSlice == [isNil |-> TRUE, items |-> <<>>]

\* append(s, x) always yields a non-nil slice.
SliceAppend(s, x) == [isNil |-> FALSE, items |-> Append(s.items, x)]

\* json.Marshal of a CurrencyData: a nil slice encodes as null, any other
\* slice as a JSON array of its encoded elements.
MarshalCurrencyData(cd) ==
    [currencies |->
        IF cd.Currencies.isNil THEN [isNull |-> TRUE, items |-> <<>>]
        ELSE [isNull |-> FALSE,
              items |-> [i \in 1..Len(cd.Currencies.items) |->
                            MarshalCurrency(cd.Currencies.items[i])]]]

\* The orders in which a range over a map with key set K can visit the keys.
RangeOrders(K) ==
    {o \in [1..Cardinality(K) -> K] : \A i, j \in DOMAIN o : i # j => o[i] # o[j]}

\* Mutant of RangeLoop: every second entry is skipped.
RECURSIVE RangeLoopSkip(_, _, _, _)
RangeLoopSkip(m, order, i, currencies) ==
    IF i > Len(order) THEN currencies
    ELSE RangeLoopSkip(m, order, i + 2,
                       SliceAppend(currencies,
                                   CurrenciesHandlerCurrency(order[i], m.kv[order[i]])))

\* Lines 100-114: the loop of CurrenciesHandler over the map m, visiting the
\* keys in the order given, appending one Currency per entry.
RECURSIVE RangeLoop(_, _, _, _)
RangeLoop(m, order, i, currencies) ==
    IF i > Len(order) THEN currencies
    ELSE RangeLoop(m, order, i + 1,
                   SliceAppend(currencies,
                               CurrenciesHandlerCurrency(order[i], m.kv[order[i]])))

\* The response a handler has written: http.Error writes a plain-text body,
\* http.Redirect a Location, w.Write the JSON.
NoResponse == [status |-> 0, kind |-> "none", body |-> ""]

HttpError(msg, code) == [status |-> code, kind |-> "text", body |-> msg]

HttpRedirect(url, code) == [status |-> code, kind |-> "redirect", body |-> url]

WriteJSON(kind, js) == [status |-> StatusOK, kind |-> kind, body |-> js]

(***************************************************************************)
(* State                                                                   *)
(***************************************************************************)

VARIABLES
    configFile,      \* the file config.json as it is on disk
    mainPc,          \* where main is
    mainErr,         \* main's err (lines 232 and 239)
    symbols,         \* main's symbols (line 236)
    markets,         \* the map held by the shared *Markets value
    respStatusCode,  \* resp.StatusCode of the latest http.Get response, 0 if none
    updPc,           \* where updateMarkets is
    loopPc,          \* where the goroutine of lines 201-216 is
    loopErr,         \* err of the latest getMarkets call of that goroutine
    inFlight,        \* the getMarkets calls of updateMarkets that have not returned
    done,            \* the channel done of line 200
    waiterPc,        \* where the goroutine of lines 220-224 is
    hPc,             \* where the request handler in flight is
    req,             \* its request r
    symbol,          \* CurrencyHandler's symbol (line 59)
    w,               \* what it has written to the ResponseWriter
    rangeMap,        \* the map the range statement of line 101 runs over
    replaced,        \* history: the latest line 212, the map it overwrote (old)
                     \* and the map getMarkets had returned to it (new)
    hClean,          \* history: line 212 has not run since the request arrived
    hInFetch,        \* history: the request arrived during a getMarkets call of
                     \* updateMarkets that has not returned since
    alt              \* history: provided, the keys of the latest response body
                     \* that getMarkets parsed; agree, whether after every fetch
                     \* so far the runs with the other symbol lists a config
                     \* file can load, given the same responses, had the same
                     \* err and the same map as this run

vars ==
    <<configFile, mainPc, mainErr, symbols, markets, respStatusCode, updPc,
      loopPc, loopErr, inFlight, done, waiterPc, hPc, req, symbol, w, rangeMap,
      replaced, hClean, hInFetch, alt>>

mainVars == <<mainPc, mainErr, symbols>>

loopVars == <<updPc, loopPc, loopErr, inFlight, done, waiterPc>>

handlerVars == <<hPc, req, symbol, w, rangeMap, hClean, hInFetch>>

\* The symbol lists main can get from getConfig (line 236).
LoadedSymbolLists ==
    {getConfig(cf).Symbols : cf \in {c \in ConfigFiles : getConfig(c).err = "nil"}}

\* Lines 239 and 208 in the runs with the other symbol lists: each calls
\* getMarkets with its list and gets the response up, where this run got r.
\* With the same err and the same map returned, lines 240-242 and 209-213
\* leave these runs as they leave this one.
AltFetch(a, r, up) ==
    [provided |-> IF r.err = "nil" THEN DOMAIN up.body.obj ELSE a.provided,
     agree |-> a.agree /\ \A sl \in LoadedSymbolLists : getMarkets(sl, up) = r]

\* A channel made by make(chan bool): not closed, and no statement sends on it.
OpenChan == [closed |-> FALSE]

NoneReplaced == [valid |-> FALSE, old |-> NilMap, new |-> NilMap]

\* log.Fatalf and log.Fatal end the process: no goroutine runs after them.
Exited == mainPc \in {"exitedConfig", "exitedFetch", "exitedListen", "exitedPanic"}

Init ==
    /\ configFile \in ConfigFiles
    /\ mainPc = "getConfig"
    /\ mainErr = "nil"
    /\ symbols = NilSymbols
    /\ markets = NilMap
    /\ respStatusCode = 0
    /\ updPc = "notStarted"
    /\ loopPc = "notStarted"
    /\ loopErr = "nil"
    /\ inFlight = 0
    /\ done = OpenChan
    /\ waiterPc = "notStarted"
    /\ hPc = "idle"
    /\ req = NoRequest
    /\ symbol = ""
    /\ w = NoResponse
    /\ rangeMap = NilMap
    /\ replaced = NoneReplaced
    /\ hClean = TRUE
    /\ hInFetch = FALSE
    /\ alt = [provided |-> {}, agree |-> TRUE]

(***************************************************************************)
(* main, lines 230-264                                                     *)
(***************************************************************************)

\* Lines 232-236: getConfig, log.Fatalf on an error, else symbols.
MainGetConfig ==
    /\ mainPc = "getConfig"
    /\ LET config == getConfig(configFile)
       IN /\ mainErr' = config.err
          /\ IF config.err # "nil"
             THEN /\ mainPc' = "exitedConfig"
                  /\ UNCHANGED symbols
             ELSE /\ mainPc' = "getMarkets"
                  /\ symbols' = config.Symbols
    /\ UNCHANGED <<configFile, alt, markets, respStatusCode, loopVars, handlerVars, replaced>>

\* Mutant of MainGetMarkets: the error of the initial getMarkets is not
\* looked at and main goes on.
MainGetMarketsNoExit ==
    /\ mainPc = "getMarkets"
    /\ \E up \in Upstream :
        LET r == getMarkets(symbols, up)
        IN /\ mainErr' = r.err
           /\ respStatusCode' = up.status
           /\ mainPc' = "goUpdate"
           /\ markets' = r.markets
           /\ alt' = AltFetch(alt, r, up)
    /\ UNCHANGED <<configFile, symbols, loopVars, handlerVars, replaced>>

\* Lines 239-242: the initial getMarkets, log.Fatalf on an error.
MainGetMarkets ==
    /\ mainPc = "getMarkets"
    /\ \E up \in Upstream :
        LET r == getMarkets(symbols, up)
        IN /\ mainErr' = r.err
           /\ respStatusCode' = up.status
           /\ IF r.err # "nil"
              THEN /\ mainPc' = "exitedFetch"
                   /\ UNCHANGED markets
              ELSE /\ mainPc' = "goUpdate"
                   /\ markets' = r.markets
           /\ alt' = AltFetch(alt, r, up)
    /\ UNCHANGED <<configFile, symbols, loopVars, handlerVars, replaced>>

\* Line 245: go updateMarkets(markets, symbols); lines 248-259 register the
\* two handlers.
MainGoUpdate ==
    /\ mainPc = "goUpdate"
    /\ mainPc' = "listen"
    /\ updPc' = "start"
    /\ UNCHANGED <<configFile, alt, mainErr, symbols, markets, respStatusCode, loopPc,
                   loopErr, inFlight, done, waiterPc, handlerVars, replaced>>

\* Line 263: http.ListenAndServe starts serving, or fails (the port is
\* taken) and log.Fatal ends the process.
MainListen ==
    /\ mainPc = "listen"
    /\ mainPc' \in {"serving", "exitedListen"}
    /\ UNCHANGED <<configFile, alt, mainErr, symbols, markets, respStatusCode, loopVars,
                   handlerVars, replaced>>

(***************************************************************************)
(* updateMarkets, lines 189-228                                            *)
(***************************************************************************)

\* Mutant of UpdateMarketsStart: done is closed when the goroutines start
\* (close(done) not deferred behind the receive).
UpdateMarketsStartClosed ==
    /\ ~Exited
    /\ updPc = "start"
    /\ updPc' = "wait"
    /\ loopPc' = "select"
    /\ waiterPc' = "recv"
    /\ done' = [closed |-> TRUE]
    /\ UNCHANGED <<configFile, alt, mainVars, markets, respStatusCode, loopErr, inFlight,
                   handlerVars, replaced>>

\* Lines 191-227: the ticker, the done channel, the two goroutines; then
\* updateMarkets waits in wg.Wait.
UpdateMarketsStart ==
    /\ ~Exited
    /\ updPc = "start"
    /\ updPc' = "wait"
    /\ loopPc' = "select"
    /\ waiterPc' = "recv"
    /\ done' = OpenChan
    /\ UNCHANGED <<configFile, alt, mainVars, markets, respStatusCode, loopErr, inFlight,
                   handlerVars, replaced>>

\* The cases of the select of lines 203-206 that can proceed: a tick comes
\* every interval; a receive from done proceeds only once done is closed, as
\* no statement sends on it.
SelectReady(ch) == {"ticker"} \cup (IF ch.closed THEN {"done"} ELSE {})

\* Mutant of LoopTick: each tick starts getMarkets in a goroutine of its own
\* and the loop goes back to the select.
LoopTickSpawn ==
    /\ loopPc = "select"
    /\ inFlight < 2
    /\ inFlight' = inFlight + 1
    /\ respStatusCode' = 0
    /\ UNCHANGED <<configFile, alt, mainVars, markets, updPc, loopPc, loopErr, done,
                   waiterPc, handlerVars, replaced>>

\* Lines 203-208: the select; on done the goroutine returns, on a tick
\* getMarkets is called.
LoopTick ==
    /\ loopPc = "select"
    /\ \E case \in SelectReady(done) :
        IF case = "done"
        THEN /\ loopPc' = "returned"
             /\ UNCHANGED <<loopErr, respStatusCode, inFlight>>
        ELSE /\ loopPc' = "fetching"
             /\ loopErr' = "nil"
             /\ respStatusCode' = 0
             /\ inFlight' = inFlight + 1
    /\ UNCHANGED <<configFile, alt, mainVars, markets, updPc, done, waiterPc,
                   handlerVars, replaced>>

\* Lines 221-223: the receive from done, which proceeds only once done is
\* closed; the deferred close(done) then closes a closed channel, which
\* panics and ends the process.
WaiterReceive ==
    /\ waiterPc = "recv"
    /\ done.closed
    /\ waiterPc' = "returned"
    /\ mainPc' = "exitedPanic"
    /\ UNCHANGED <<configFile, alt, mainErr, symbols, markets, respStatusCode, updPc,
                   loopPc, loopErr, inFlight, done, handlerVars, replaced>>

\* A channel receive of updateMarkets' goroutines: the select of the loop or
\* the receive of the waiting goroutine.
Receive ==
    /\ ~Exited
    /\ \E g \in {"loop", "waiter"} : IF g = "loop" THEN LoopTick ELSE WaiterReceive

\* Mutant of ApplyResult: the new entries are written into the old map, so
\* entries the new map lacks stay.
ApplyResultPatch(old, newMarkets, err) ==
    IF err # "nil" THEN old
    ELSE [isNil |-> FALSE,
          kv |-> [s \in DOMAIN newMarkets.kv \cup DOMAIN old.kv |->
                    IF s \in DOMAIN newMarkets.kv THEN newMarkets.kv[s] ELSE old.kv[s]]]

\* Mutant of ApplyResult: the result is stored whether or not err is nil.
ApplyResultAlways(old, newMarkets, err) == newMarkets

\* Lines 209-213: what the loop does with the result of getMarkets: on an
\* error the shared value keeps its map, else it takes the new one.
ApplyResult(old, newMarkets, err) == IF err # "nil" THEN old ELSE newMarkets

\* Lines 208-213: getMarkets returns and its result is logged or stored.
LoopFetchReturn ==
    /\ ~Exited
    /\ loopPc = "fetching"
    /\ inFlight > 0
    /\ \E up \in Upstream :
        LET r == getMarkets(symbols, up)
        IN /\ loopErr' = r.err
           /\ respStatusCode' = up.status
           /\ markets' = ApplyResult(markets, r.markets, r.err)
           /\ alt' = AltFetch(alt, r, up)
           /\ IF r.err # "nil"
              THEN UNCHANGED <<replaced, hClean>>
              ELSE /\ replaced' = [valid |-> TRUE, old |-> markets, new |-> r.markets]
                   /\ hClean' = (hPc = "idle")
    /\ loopPc' = "select"
    /\ inFlight' = inFlight - 1
    /\ hInFetch' = FALSE
    /\ UNCHANGED <<configFile, mainVars, updPc, done, waiterPc, hPc, req, symbol, w,
                   rangeMap>>

(***************************************************************************)
(* The handlers, lines 56-130 and 248-259                                  *)
(***************************************************************************)

\* Mutant of ServeRedirect: the redirect goes to the subtree root /currency/.
ServeRedirectRoot ==
    /\ mainPc = "serving"
    /\ hPc = "idle"
    /\ \E r \in Requests :
        /\ Len(r.path) = 1
        /\ req' = r
        /\ w' = HttpRedirect("/currency/", StatusMovedPermanently)
    /\ hPc' = "done"
    /\ hClean' = TRUE
    /\ hInFetch' = (loopPc = "fetching")
    /\ UNCHANGED <<configFile, alt, mainVars, markets, respStatusCode, loopVars, symbol,
                   rangeMap, replaced>>

\* Lines 248-250: the exact path /currency is redirected.
ServeRedirect ==
    /\ mainPc = "serving"
    /\ hPc = "idle"
    /\ \E r \in Requests :
        /\ Len(r.path) = 1
        /\ req' = r
        /\ w' = HttpRedirect("/currency/all", StatusMovedPermanently)
    /\ hPc' = "done"
    /\ hClean' = TRUE
    /\ hInFetch' = (loopPc = "fetching")
    /\ UNCHANGED <<configFile, alt, mainVars, markets, respStatusCode, loopVars, symbol,
                   rangeMap, replaced>>

\* Lines 251-255 and 59-63: a path below /currency/ other than "all" goes to
\* CurrencyHandler, which takes symbol from the query of the request.
ServeCurrency ==
    /\ mainPc = "serving"
    /\ hPc = "idle"
    /\ \E r \in Requests :
        /\ Len(r.path) = 2
        /\ PathSymbol(r) # "all"
        /\ LET r2 == RequestAfterQuerySet(r, PathSymbol(r))
               sym == ValuesGet(URLQuery(r2))
           IN /\ req' = r2
              /\ symbol' = sym
              /\ IF sym = ""
                 THEN /\ w' = HttpError("No symbol specified", StatusBadRequest)
                      /\ hPc' = "done"
                 ELSE /\ w' = NoResponse
                      /\ hPc' = "check"
    /\ hClean' = TRUE
    /\ hInFetch' = (loopPc = "fetching")
    /\ UNCHANGED <<configFile, alt, mainVars, markets, respStatusCode, loopVars, rangeMap,
                   replaced>>

\* Mutant of CurrencyHandlerCheck: the membership test is left out.
CurrencyHandlerCheckAbsent ==
    /\ ~Exited
    /\ hPc = "check"
    /\ w' = w
    /\ hPc' = "read"
    /\ UNCHANGED <<configFile, alt, mainVars, markets, respStatusCode, loopVars, req,
                   symbol, rangeMap, replaced, hClean, hInFetch>>

\* Mutant of CurrencyHandlerCheck: a symbol the map lacks is entered into the
\* shared map with the zero ticker before the 400 is written.
CurrencyHandlerCheckInsert ==
    /\ ~Exited
    /\ hPc = "check"
    /\ IF ~MapHas(markets, symbol)
       THEN /\ w' = HttpError("Invalid symbol specified", StatusBadRequest)
            /\ hPc' = "done"
            /\ markets' = [isNil |-> FALSE,
                           kv |-> [s \in Keys(markets) \cup {symbol} |->
                                     MapGet(markets, s)]]
       ELSE /\ w' = w
            /\ hPc' = "read"
            /\ markets' = markets
    /\ UNCHANGED <<configFile, alt, mainVars, respStatusCode, loopVars, req,
                   symbol, rangeMap, replaced, hClean, hInFetch>>

\* Lines 64-67: the membership test.
CurrencyHandlerCheck ==
    /\ ~Exited
    /\ hPc = "check"
    /\ IF ~MapHas(markets, symbol)
       THEN /\ w' = HttpError("Invalid symbol specified", StatusBadRequest)
            /\ hPc' = "done"
       ELSE /\ w' = w
            /\ hPc' = "read"
    /\ UNCHANGED <<configFile, alt, mainVars, markets, respStatusCode, loopVars, req,
                   symbol, rangeMap, replaced, hClean, hInFetch>>

\* Lines 70-92: the ticker is read and the Currency is written as JSON.
CurrencyHandlerRead ==
    /\ ~Exited
    /\ hPc = "read"
    /\ LET marketTicker == MapGet(markets, symbol)
           currency == CurrencyHandlerCurrency(symbol, marketTicker)
       IN w' = WriteJSON("currency", MarshalCurrency(currency))
    /\ hPc' = "done"
    /\ UNCHANGED <<configFile, alt, mainVars, markets, respStatusCode, loopVars, req,
                   symbol, rangeMap, replaced, hClean, hInFetch>>

\* Lines 256-257: the path /currency/all goes to CurrenciesHandler.
ServeCurrencies ==
    /\ mainPc = "serving"
    /\ hPc = "idle"
    /\ \E r \in Requests :
        /\ Len(r.path) = 2
        /\ PathSymbol(r) = "all"
        /\ req' = r
    /\ hPc' = "range"
    /\ hClean' = TRUE
    /\ hInFetch' = (loopPc = "fetching")
    /\ UNCHANGED <<configFile, alt, mainVars, markets, respStatusCode, loopVars, symbol,
                   w, rangeMap, replaced>>

\* Mutant of CurrenciesHandlerRange: the read of the map waits until no
\* getMarkets call of the loop is in flight.
CurrenciesHandlerRangeWaits ==
    /\ ~Exited
    /\ hPc = "range"
    /\ loopPc # "fetching"
    /\ rangeMap' = markets
    /\ hPc' = "loop"
    /\ UNCHANGED <<configFile, alt, mainVars, markets, respStatusCode, loopVars, req,
                   symbol, w, replaced, hClean, hInFetch>>

\* Line 101: the range statement evaluates markets.Markets, once.
CurrenciesHandlerRange ==
    /\ ~Exited
    /\ hPc = "range"
    /\ rangeMap' = markets
    /\ hPc' = "loop"
    /\ UNCHANGED <<configFile, alt, mainVars, markets, respStatusCode, loopVars, req,
                   symbol, w, replaced, hClean, hInFetch>>

\* Mutant of CurrenciesHandlerLoop: the keys come from the map the range
\* statement evaluated, each ticker from a new read of markets.Markets.
CurrenciesHandlerLoopReread ==
    /\ ~Exited
    /\ hPc = "loop"
    /\ \E order \in RangeOrders(Keys(rangeMap)) :
        LET reread == [isNil |-> FALSE,
                       kv |-> [s \in Keys(rangeMap) |-> MapGet(markets, s)]]
            currencies == RangeLoop(reread, order, 1, NilSlice)
            currencyData == [Currencies |-> currencies]
        IN w' = WriteJSON("currencyData", MarshalCurrencyData(currencyData))
    /\ hPc' = "done"
    /\ UNCHANGED <<configFile, alt, mainVars, markets, respStatusCode, loopVars, req,
                   symbol, rangeMap, replaced, hClean, hInFetch>>

\* Lines 100-128: the loop runs over the map the range statement evaluated,
\* which nothing writes to, in some order; the list is written as JSON.
CurrenciesHandlerLoop ==
    /\ ~Exited
    /\ hPc = "loop"
    /\ \E order \in RangeOrders(Keys(rangeMap)) :
        LET currencies == RangeLoop(rangeMap, order, 1, NilSlice)
            currencyData == [Currencies |-> currencies]
        IN w' = WriteJSON("currencyData", MarshalCurrencyData(currencyData))
    /\ hPc' = "done"
    /\ UNCHANGED <<configFile, alt, mainVars, markets, respStatusCode, loopVars, req,
                   symbol, rangeMap, replaced, hClean, hInFetch>>

\* The handler returns and the response is sent; the next request can come.
HandlerReturn ==
    /\ ~Exited
    /\ hPc = "done"
    /\ hPc' = "idle"
    /\ req' = NoRequest
    /\ symbol' = ""
    /\ w' = NoResponse
    /\ rangeMap' = NilMap
    /\ hClean' = TRUE
    /\ hInFetch' = FALSE
    /\ UNCHANGED <<configFile, alt, mainVars, markets, respStatusCode, loopVars, replaced>>

Next ==
    \/ MainGetConfig
    \/ MainGetMarkets
    \/ MainGoUpdate
    \/ MainListen
    \/ UpdateMarketsStart
    \/ Receive
    \/ LoopFetchReturn
    \/ ServeRedirect
    \/ ServeCurrency
    \/ CurrencyHandlerCheck
    \/ CurrencyHandlerRead
    \/ ServeCurrencies
    \/ CurrenciesHandlerRange
    \/ CurrenciesHandlerLoop
    \/ HandlerReturn

Spec == Init /\ [][Next]_vars

(***************************************************************************)
(* Properties                                                              *)
(***************************************************************************)

\* The fields of a JSON currency object js are those of ticker t for symbol s.
IsRecordOf(js, s, t) ==
    /\ js.id = s
    /\ js.fullName = s
    /\ js.ask = t.Ask
    /\ js.bid = t.Bid
    /\ js.last = t.Last
    /\ js.open = t.Open
    /\ js.low = t.Low
    /\ js.high = t.High

\* A finished request to a path /currency/{S}, S other than "all".
DoneSymbolPath == hPc = "done" /\ Len(req.path) = 2 /\ req.path[2] # "all"

\* C1: a GET to /currency/{S} without a query string, S a key of the snapshot
\* that is current during the whole call, is answered 200 with the currency
\* object of S.
C1_PathSymbolAnswered ==
    (DoneSymbolPath /\ hClean /\ req.rawQuery = "" /\ MapHas(markets, req.path[2]))
        => (w.status = StatusOK /\ w.kind = "currency" /\ w.body.id = req.path[2])

\* C2: with no refresh during the call, CurrencyHandler called with symbol
\* parameter S, S a key of the snapshot, answers 200 with id and fullName S
\* and ask, bid, last, open, low, high as the snapshot has them for S.
C2_GetOneVerbatim ==
    (DoneSymbolPath /\ hClean /\ symbol # "" /\ MapHas(markets, symbol))
        => (/\ w.status = StatusOK
            /\ w.kind = "currency"
            /\ IsRecordOf(w.body, symbol, markets.kv[symbol]))

C2_Witness ==
    /\ DoneSymbolPath
    /\ hClean
    /\ symbol = "ETHBTC"
    /\ MapHas(markets, symbol)
    /\ markets.kv[symbol] = TickerB
    /\ w.status = StatusOK
    /\ w.body.ask = "20"
    /\ w.body.bid = "19"

\* C3: the step in which CurrenciesHandler answers writes one record per key
\* of the snapshot its range statement read: the ids are the keys, none
\* twice, as many records as keys; with no refresh since, that snapshot is
\* the current one.
C3_GetAllOnePerKey ==
    [][(hPc = "loop" /\ hPc' = "done")
        => LET items == w'.body.currencies.items
           IN /\ w'.status = StatusOK
              /\ w'.kind = "currencyData"
              /\ {items[i].id : i \in DOMAIN items} = Keys(rangeMap)
              /\ \A i, j \in DOMAIN items : i # j => items[i].id # items[j].id
              /\ Len(items) = Cardinality(Keys(rangeMap))
              /\ hClean => rangeMap = markets]_vars

C3_Witness ==
    /\ hPc = "done"
    /\ hClean
    /\ w.kind = "currencyData"
    /\ Keys(markets) = Symbols
    /\ Len(w.body.currencies.items) = 2
    /\ w.body.currencies.items[1].id = "ETHBTC"
    /\ w.body.currencies.items[2].id = "BTCUSD"

\* C4: CurrencyHandler with an empty symbol parameter answers 400 "No symbol
\* specified"; with a symbol that is not a key of the snapshot its membership
\* test reads, 400 "Invalid symbol specified"; neither step changes the
\* snapshot, and the two messages differ.
C4_BadRequest ==
    [][/\ (/\ hPc = "idle"
           /\ hPc' # "idle"
           /\ Len(req'.path) = 2
           /\ req'.path[2] # "all"
           /\ req'.rawQuery = "")
          => (/\ hPc' = "done"
              /\ w' = [status |-> 400, kind |-> "text", body |-> "No symbol specified"]
              /\ markets' = markets)
       /\ (hPc = "check" /\ hPc' # "check" /\ ~(symbol \in Keys(markets)))
          => (/\ hPc' = "done"
              /\ w' = [status |-> 400, kind |-> "text", body |-> "Invalid symbol specified"]
              /\ markets' = markets)]_vars

C4_Witness ==
    /\ DoneSymbolPath
    /\ hClean
    /\ symbol = "ETHBTC"
    /\ Keys(markets) = {"BTCUSD"}
    /\ w.status = StatusBadRequest
    /\ w.body = "Invalid symbol specified"

\* The response w holds only what the map m holds: a currency object the
\* fields m has for its id, a currency list one such object per key of m, an
\* "Invalid symbol" error only for a symbol m lacks.
AnswerFrom(m) ==
    /\ w.kind = "currency"
        => (MapHas(m, w.body.id) /\ IsRecordOf(w.body, symbol, m.kv[w.body.id]))
    /\ w.kind = "currencyData"
        => LET items == w.body.currencies.items
           IN /\ {items[i].id : i \in DOMAIN items} = Keys(m)
              /\ \A i \in DOMAIN items :
                    IsRecordOf(items[i], items[i].id, m.kv[items[i].id])
    /\ (w.kind = "text" /\ w.body = "Invalid symbol specified") => ~MapHas(m, symbol)

\* C5: a call that arrived after the latest successful refresh stored its map
\* answers from that map as getMarkets returned it, with nothing of the map
\* it replaced.
C5_OnlyNewSnapshot ==
    (hPc = "done" /\ hClean /\ replaced.valid) => AnswerFrom(replaced.new)

C5_Witness ==
    /\ hPc = "done"
    /\ hClean
    /\ replaced.valid
    /\ replaced.old = MakeMap([s \in Symbols |-> TickerA])
    /\ replaced.new = MakeMap([s \in {"BTCUSD"} |-> TickerB])
    /\ w.kind = "currencyData"
    /\ Len(w.body.currencies.items) = 1
    /\ w.body.currencies.items[1].ask = "20"

\* C6: a tick whose getMarkets returns an error leaves the shared map as it
\* was; as this holds of every such tick, it holds of any run of them.
C6_FailedTickKeeps ==
    [][(loopPc = "fetching" /\ loopPc' = "select" /\ loopErr' # "nil")
        => markets' = markets]_vars

C6_Witness ==
    /\ loopPc = "select"
    /\ loopErr # "nil"
    /\ replaced.valid
    /\ markets = replaced.new
    /\ Keys(markets) = Symbols
    /\ hPc = "done"
    /\ hClean
    /\ w.kind = "currencyData"
    /\ Len(w.body.currencies.items) = 2

\* C7: with no entries in the snapshot, CurrenciesHandler answers
\* {"currencies":[]}: an empty list, not null.
C7_EmptyList ==
    (hPc = "done" /\ hClean /\ w.kind = "currencyData" /\ Keys(markets) = {})
        => (~w.body.currencies.isNull /\ w.body.currencies.items = <<>>)

\* C8: a response with a non-success status makes getMarkets return an error,
\* also when its body is a JSON object (which yields a non-nil map): at
\* startup main exits, on a tick the loop has an error (and by C6 keeps the
\* snapshot).
C8_StatusChecked ==
    (respStatusCode # 0 /\ respStatusCode # StatusOK /\ ~markets.isNil)
        => (mainPc = "exitedFetch" \/ (loopPc = "select" /\ loopErr # "nil"))

\* C9: requests are served only once getConfig and then the initial
\* getMarkets have both returned without error; when either fails the
\* process exits with no request served and updateMarkets not started.
C9_StartupOrder ==
    /\ mainPc = "getConfig"
        => (markets = NilMap /\ respStatusCode = 0 /\ mainErr = "nil")
    /\ mainPc \in {"getConfig", "getMarkets", "goUpdate"}
        => (updPc = "notStarted" /\ loopPc = "notStarted")
    /\ mainPc # "serving" => (hPc = "idle" /\ w = NoResponse)
    /\ mainPc \in {"getMarkets", "goUpdate", "listen", "serving"} => mainErr = "nil"
    /\ mainErr # "nil" => mainPc \in {"exitedConfig", "exitedFetch"}
    /\ mainPc \in {"exitedConfig", "exitedFetch"}
        => (/\ mainErr # "nil"
            /\ updPc = "notStarted"
            /\ loopPc = "notStarted"
            /\ hPc = "idle"
            /\ w = NoResponse)
    /\ mainPc = "exitedConfig" => (markets = NilMap /\ respStatusCode = 0)

C9_Witness ==
    /\ mainPc = "serving"
    /\ mainErr = "nil"
    /\ loopPc = "fetching"
    /\ hPc = "done"
    /\ w.status = StatusOK

\* The shape getConfig expects: an object with a list-of-strings "symbols".
ExpectedShape(cf) == cf.file = "ok" /\ cf.doc = "object" /\ cf.field = "list"

\* C10: getConfig returns an error for every config file that is not of the
\* expected shape, so main gets past getConfig only with one that is.
C10_ConfigShape ==
    ~ExpectedShape(configFile) => mainPc \in {"getConfig", "exitedConfig"}


\* C11: every record that CurrencyHandler or CurrenciesHandler writes has
\* feeCurrency "BTC", whatever the symbol and the snapshot.
C11_FeeCurrencyBTC ==
    /\ w.kind = "currency" => w.body.feeCurrency = "BTC"
    /\ w.kind = "currencyData"
        => \A i \in DOMAIN w.body.currencies.items :
                w.body.currencies.items[i].feeCurrency = "BTC"

C11_Witness ==
    /\ hPc = "done"
    /\ w.kind = "currencyData"
    /\ Len(w.body.currencies.items) = 2
    /\ w.body.currencies.items[1].id = "ETHBTC"
    /\ w.body.currencies.items[1].feeCurrency = "BTC"

\* C12: a request to the exact path /currency is answered at once with a 301
\* redirect to /currency/all; a request to /currency/all goes to
\* CurrenciesHandler and is answered with the currency list, never by
\* CurrencyHandler, whatever the query and the snapshot.
C12_RedirectAndAll ==
    [][/\ (hPc = "idle" /\ hPc' # "idle" /\ Len(req'.path) = 1)
          => (/\ hPc' = "done"
              /\ w' = [status |-> 301, kind |-> "redirect", body |-> "/currency/all"])
       /\ (hPc = "idle" /\ hPc' # "idle" /\ Len(req'.path) = 2 /\ req'.path[2] = "all")
          => (hPc' = "range" /\ symbol' = "" /\ w' = NoResponse)
       /\ (hPc # "done" /\ hPc' = "done" /\ Len(req'.path) = 2 /\ req'.path[2] = "all")
          => (w'.status = StatusOK /\ w'.kind = "currencyData")]_vars

C12_Witness ==
    /\ hPc = "done"
    /\ req.path = <<"currency">>
    /\ w.status = StatusMovedPermanently
    /\ w.body = "/currency/all"
    /\ Keys(markets) = Symbols


\* C13: every 200 answer of CurrencyHandler for symbol S carries the ticker
\* fields S has in some snapshot that contains S, never the all-empty record
\* of a symbol the map it was read from does not have. Stated of calls after
\* a refresh that replaced one map parsed from a JSON object by another.
C13_GetOneOneSnapshot ==
    (/\ hPc = "done"
     /\ w.kind = "currency"
     /\ replaced.valid
     /\ ~replaced.old.isNil
     /\ ~replaced.new.isNil)
        => \E t \in Tickers : IsRecordOf(w.body, symbol, t)

\* C14: CurrenciesHandler answers with the records of exactly one map: the
\* one markets.Markets held when the range statement read it. Refreshes that
\* come after that read leave the map the loop runs over as it is, and the
\* answer has one record per key of that map with the fields of that map.
C14_GetAllOneSnapshot ==
    [][/\ (hPc = "range" /\ hPc' = "loop") => rangeMap' = markets
       /\ (hPc = "loop" /\ hPc' = "loop") => rangeMap' = rangeMap
       /\ (hPc = "loop" /\ hPc' = "done")
            => LET items == w'.body.currencies.items
               IN /\ w'.kind = "currencyData"
                  /\ {items[i].id : i \in DOMAIN items} = Keys(rangeMap)
                  /\ Len(items) = Cardinality(Keys(rangeMap))
                  /\ \A i \in DOMAIN items :
                        IsRecordOf(items[i], items[i].id,
                                   rangeMap.kv[items[i].id])]_vars

C14_Witness ==
    /\ hPc = "done"
    /\ w.kind = "currencyData"
    /\ ~hClean
    /\ replaced.valid
    /\ rangeMap = replaced.old
    /\ markets = replaced.new
    /\ rangeMap = MakeMap([s \in Symbols |-> TickerA])
    /\ markets = MakeMap([s \in Symbols |-> TickerB])
    /\ Len(w.body.currencies.items) = 2
    /\ \A i \in 1..2 : w.body.currencies.items[i].ask = "10"

\* C15: in every reachable state the done channel of updateMarkets is open
\* (nothing was sent on it, nothing closed it), the waiting goroutine has not
\* got past its receive, neither the loop goroutine nor updateMarkets has
\* returned, no panic of the deferred close has ended the process; and every
\* select the loop gets past is a tick that goes on to call getMarkets.
C15_LoopNeverStops ==
    /\ [](/\ ~done.closed
          /\ waiterPc \in {"notStarted", "recv"}
          /\ loopPc \in {"notStarted", "select", "fetching"}
          /\ updPc \in {"notStarted", "start", "wait"}
          /\ mainPc # "exitedPanic")
    /\ [][(loopPc = "select" /\ loopPc' # "select")
            => (loopPc' = "fetching" /\ inFlight' = inFlight + 1)]_vars

C15_Witness ==
    /\ mainPc = "serving"
    /\ updPc = "wait"
    /\ waiterPc = "recv"
    /\ loopPc = "fetching"
    /\ replaced.valid
    /\ loopErr = "nil"
    /\ hPc = "done"
    /\ ~done.closed

\* C16: once the startup fetch is over, no step of a request (the redirect,
\* CurrencyHandler on its 200 and 400 paths, CurrenciesHandler, the return)
\* changes the shared map; the map changes only in the step in which a
\* tick's getMarkets returns with a nil error.
C16_RefresherOnlyWriter ==
    [][/\ (hPc' # hPc \/ req' # req \/ symbol' # symbol \/ w' # w
            \/ rangeMap' # rangeMap)
            => markets' = markets
       /\ (mainPc # "getMarkets" /\ markets' # markets)
            => (/\ loopPc = "fetching"
                /\ loopPc' = "select"
                /\ loopErr' = "nil"
                /\ hPc' = hPc
                /\ w' = w)]_vars

C16_Witness ==
    /\ hPc = "done"
    /\ w.status = StatusBadRequest
    /\ w.body = "Invalid symbol specified"
    /\ symbol = "ETHBTC"
    /\ replaced.valid
    /\ markets = replaced.new
    /\ markets = MakeMap([s \in {"BTCUSD"} |-> TickerA])
    /\ replaced.old = MakeMap([s \in Symbols |-> TickerB])
    /\ ~hClean

\* C19: at most one getMarkets call of the loop is in flight, and it is in
\* flight exactly while the loop is inside its call; a call starts only when
\* none is in flight and the loop is back at its select, that is after the
\* previous result was stored or logged; so results are applied in the order
\* the calls started and the shared map is the one the latest successful
\* call returned.
C19_SequentialRefresh ==
    /\ [](/\ inFlight \in {0, 1}
          /\ (loopPc = "fetching") <=> (inFlight = 1)
          /\ replaced.valid => markets = replaced.new)
    /\ [][/\ inFlight' > inFlight
               => (inFlight = 0 /\ loopPc = "select" /\ markets' = markets)
          /\ inFlight' < inFlight
               => (/\ loopPc' = "select"
                   /\ markets' = (IF loopErr' = "nil" THEN replaced'.new
                                  ELSE markets))]_vars

C19_Witness ==
    /\ loopPc = "fetching"
    /\ inFlight = 1
    /\ replaced.valid
    /\ replaced.old = MakeMap([s \in Symbols |-> TickerB])
    /\ replaced.new = MakeMap([s \in Symbols |-> TickerA])
    /\ markets = replaced.new
    /\ hPc = "idle"

\* C18: while the loop is inside a getMarkets call that has not returned,
\* the server takes requests and every step of a handler can be taken, none
\* waits for the call; and a request that was taken and answered within one
\* such call is answered from the map that is current then.
C18_FetchBlocksOnlyRefresh ==
    (mainPc = "serving" /\ loopPc = "fetching")
        => /\ hPc = "idle"
                => (ENABLED ServeRedirect /\ ENABLED ServeCurrency
                    /\ ENABLED ServeCurrencies)
           /\ hPc = "check" => ENABLED CurrencyHandlerCheck
           /\ hPc = "read" => ENABLED CurrencyHandlerRead
           /\ hPc = "range" => ENABLED CurrenciesHandlerRange
           /\ hPc = "loop" => ENABLED CurrenciesHandlerLoop
           /\ hPc = "done" => ENABLED HandlerReturn
           /\ (hPc = "done" /\ hInFetch)
                => (w # NoResponse /\ hClean /\ AnswerFrom(markets))

C18_Witness ==
    /\ mainPc = "serving"
    /\ loopPc = "fetching"
    /\ hInFetch
    /\ hPc = "done"
    /\ w.kind = "currencyData"
    /\ w.status = StatusOK
    /\ Len(w.body.currencies.items) = 2
    /\ replaced.valid
    /\ markets = MakeMap([s \in Symbols |-> TickerB])

\* C17: the run and the runs with the other symbol lists a config file can
\* load (the empty one among them), given the same upstream responses and
\* the same requests, get the same error and the same map from every fetch,
\* so hold the same map and write the same responses; and the shared map,
\* and so what CurrenciesHandler lists, has every symbol of the latest
\* parsed response.
C17_SymbolListNoInfluence ==
    /\ [](/\ alt.agree
          /\ Keys(markets) = alt.provided
          /\ Cardinality(LoadedSymbolLists) > 1
          /\ NilSymbols \in LoadedSymbolLists)
    /\ [][/\ markets' # markets
               => \E up \in Upstream : \A sl \in LoadedSymbolLists :
                    LET r == getMarkets(sl, up)
                    IN r.err = "nil" /\ markets' = r.markets
                       /\ alt'.provided = DOMAIN up.body.obj
           /\ (hPc = "loop" /\ hPc' = "done")
               => LET items == w'.body.currencies.items
                      ids == {items[i].id : i \in DOMAIN items}
                  IN /\ ids = Keys(rangeMap)
                     /\ hClean => ids = alt.provided]_vars

C17_Witness ==
    /\ symbols = SymbolList(<<"BTCUSD">>)
    /\ hPc = "done"
    /\ hClean
    /\ replaced.valid
    /\ Keys(replaced.old) = {"BTCUSD"}
    /\ alt.provided = Symbols
    /\ w.kind = "currencyData"
    /\ Len(w.body.currencies.items) = 2
    /\ alt.agree

====
